---- MODULE Spec2Model ----
(***************************************************************************)
(* Model of app.py of K-map-visualizer: the /solve pipeline that turns a   *)
(* minimized Boolean expression into implicant groups, per-group terms and *)
(* explanations, the display string of the solution and the Karnaugh grid. *)
(*                                                                         *)
(* Python strings are sequences of one-character strings, Python lists are *)
(* sequences, dicts are functions.  A sympy expression is a record         *)
(* [kind, name, args]; a Python bool is a record of kind "bool".           *)
(***************************************************************************)
EXTENDS Integers, Sequences, FiniteSets, TLC

VARIABLES op, pc, var_names, form_type, minterms, dontcares, malformed,
          expr_obj, group_minterms, ret, minimizer_calls

vars == <<op, pc, var_names, form_type, minterms, dontcares, malformed,
          expr_obj, group_minterms, ret, minimizer_calls>>

(***************************************************************************)
(* Bounds of the model.                                                    *)
(***************************************************************************)
\* a request carries 0 .. MaxVarCount variable names
MaxVarCount == 5
\* a request marks at most MaxMarked cells: the members of the on-set (or
\* the indices missing from it) and the don't-cares
MaxMarked == 2
\* an expression has at most MaxTerms top-level terms
MaxTerms == 2
\* an arbitrary (non-cube) group has at most MaxGroupSize members
MaxGroupSize == 2

(***************************************************************************)
(* Generic helpers.                                                        *)
(***************************************************************************)
Pow2(k) == 2 ^ k

Min(S) == CHOOSE x \in S : \A y \in S : x <= y

RECURSIVE sorted(_)
\* sorted(list of ints), given as the set of its members
sorted(S) == IF S = {} THEN <<>> ELSE <<Min(S)>> \o sorted(S \ {Min(S)})

RECURSIVE SubsetsUpTo(_, _)
SubsetsUpTo(S, k) ==
    IF k = 0 THEN {{}}
    ELSE LET P == SubsetsUpTo(S, k - 1)
         IN  P \cup {T \cup {x} : T \in P, x \in S}

RECURSIVE Join(_, _)
\* sep.join(parts)
Join(parts, sep) ==
    IF Len(parts) = 0 THEN <<>>
    ELSE IF Len(parts) = 1 THEN parts[1]
    ELSE parts[1] \o sep \o Join(Tail(parts), sep)

RECURSIVE ReplaceFrom(_, _, _, _)
ReplaceFrom(s, i, old, new) ==
    IF i > Len(s) THEN <<>>
    ELSE IF i + Len(old) - 1 <= Len(s) /\ SubSeq(s, i, i + Len(old) - 1) = old
         THEN new \o ReplaceFrom(s, i + Len(old), old, new)
         ELSE <<s[i]>> \o ReplaceFrom(s, i + 1, old, new)

\* str.replace(old, new): every non-overlapping occurrence, left to right
Replace(s, old, new) == ReplaceFrom(s, 1, old, new)

\* format(i, f'0{num_vars}b'): the num_vars binary digits of i, most
\* significant first (i < 2^num_vars)
format(i, num_vars) ==
    [k \in 1..num_vars |->
        IF (i \div Pow2(num_vars - k)) % 2 = 1 THEN "1" ELSE "0"]

\* int(c) of a binary digit
int(c) == IF c = "1" THEN 1 ELSE 0

RECURSIVE int2(_)
\* int(bits, 2)
int2(bits) ==
    IF Len(bits) = 0 THEN 0
    ELSE 2 * int2(SubSeq(bits, 1, Len(bits) - 1)) + int(bits[Len(bits)])

(***************************************************************************)
(* Expressions (sympy objects and Python bools).                           *)
(***************************************************************************)
Symbol(name) == [kind |-> "Symbol", name |-> name, args |-> <<>>]
Not(e)       == [kind |-> "Not", name |-> <<>>, args |-> <<e>>]
And(args)    == [kind |-> "And", name |-> <<>>, args |-> args]
Or(args)     == [kind |-> "Or", name |-> <<>>, args |-> args]
\* sympy's singletons true and false (BooleanTrue, BooleanFalse)
BooleanTrue  == [kind |-> "BooleanTrue", name |-> <<>>, args |-> <<>>]
BooleanFalse == [kind |-> "BooleanFalse", name |-> <<>>, args |-> <<>>]
\* Python's own True and False
PyTrue       == [kind |-> "bool", name |-> <<"T", "r", "u", "e">>, args |-> <<>>]
PyFalse      == [kind |-> "bool", name |-> <<"F", "a", "l", "s", "e">>, args |-> <<>>]

\* e is True / e is False: object identity with the Python bool
IsTrue(e)  == e = PyTrue
IsFalse(e) == e = PyFalse
\* e in [True, False]: equality; sympy's true == True and false == False
InTrueFalse(e) == e.kind \in {"bool", "BooleanTrue", "BooleanFalse"}

RECURSIVE str(_)
RECURSIVE StrArgs(_, _, _)
\* the printed arguments of an And / Or: an argument of lower precedence
\* (an Or inside an And, an And inside an Or) is parenthesized
StrArgs(args, k, inner) ==
    IF k > Len(args) THEN <<>>
    ELSE <<IF args[k].kind = inner
           THEN <<"(">> \o str(args[k]) \o <<")">>
           ELSE str(args[k])>> \o StrArgs(args, k + 1, inner)

\* str(expr) of sympy
str(e) ==
    CASE e.kind = "Symbol"       -> e.name
      [] e.kind = "Not"          -> <<"~">> \o str(e.args[1])
      [] e.kind = "And"          -> Join(StrArgs(e.args, 1, "Or"), <<" ", "&", " ">>)
      [] e.kind = "Or"           -> Join(StrArgs(e.args, 1, "And"), <<" ", "|", " ">>)
      [] e.kind = "BooleanTrue"  -> <<"T", "r", "u", "e">>
      [] e.kind = "BooleanFalse" -> <<"F", "a", "l", "s", "e">>
      [] e.kind = "bool"         -> e.name

(***************************************************************************)
(* group_to_term                                                           *)
(***************************************************************************)
RECURSIVE term_parts_unflipped(_, _, _, _)
\* term_parts with the SOP polarity in either form
term_parts_unflipped(bin_strings, variables, form, i) ==
    IF i > Len(variables) THEN <<>>
    ELSE LET first_bit == bin_strings[1][i]
             constant  == \A k \in 1..Len(bin_strings) : bin_strings[k][i] = first_bit
             var_name  == IF first_bit = "1" THEN variables[i]
                          ELSE variables[i] \o <<"'">>
         IN  (IF constant THEN <<var_name>> ELSE <<>>)
             \o term_parts_unflipped(bin_strings, variables, form, i + 1)

RECURSIVE term_parts(_, _, _, _)
\* the loop of lines 25-37 from position i on; bin_strings is not empty
term_parts(bin_strings, variables, form, i) ==
    IF i > Len(variables) THEN <<>>
    ELSE LET first_bit == bin_strings[1][i]
             constant  == \A k \in 1..Len(bin_strings) : bin_strings[k][i] = first_bit
             var_name  == IF (form = "SOP" /\ first_bit = "1")
                             \/ (form = "POS" /\ first_bit = "0")
                          THEN variables[i]
                          ELSE variables[i] \o <<"'">>
         IN  (IF constant THEN <<var_name>> ELSE <<>>)
             \o term_parts(bin_strings, variables, form, i + 1)

bin_strings_of(group, num_vars) ==
    [k \in 1..Len(group) |-> format(group[k], num_vars)]

group_to_term_parts(group, variables, form) ==
    term_parts(bin_strings_of(group, Len(variables)), variables, form, 1)

\* group_to_term joining the literals of a POS term as it joins an SOP term
group_to_term_concat(group, variables, form) ==
    IF Len(group) = 0 THEN <<>>
    ELSE LET parts == group_to_term_parts(group, variables, form)
         IN  IF Len(parts) = 0 THEN <<"1">> ELSE Join(parts, <<>>)

group_to_term(group, variables, form) ==
    IF Len(group) = 0 THEN <<>>
    ELSE LET parts == group_to_term_parts(group, variables, form)
         IN  IF Len(parts) = 0 THEN <<"1">>
             ELSE IF form = "SOP" THEN Join(parts, <<>>)
             ELSE <<"(">> \o Join(parts, <<" ", "+", " ">>) \o <<")">>

(***************************************************************************)
(* get_minterms_for_term, get_implicant_groups                             *)
(***************************************************************************)
RECURSIVE fixed_vars_plain(_, _, _)
\* fixed_vars_from requiring bit 1 of a complemented variable too
fixed_vars_plain(term_args, k, fixed_vars) ==
    IF k > Len(term_args) THEN fixed_vars
    ELSE LET arg == term_args[k]
             key == IF arg.kind = "Not" THEN str(arg.args[1]) ELSE str(arg)
         IN  fixed_vars_plain(term_args, k + 1,
                 [x \in DOMAIN fixed_vars \cup {key} |->
                     IF x = key THEN 1 ELSE fixed_vars[x]])

RECURSIVE fixed_vars_from(_, _, _)
\* the loop of lines 57-61: the dict after the arguments from k on
fixed_vars_from(term_args, k, fixed_vars) ==
    IF k > Len(term_args) THEN fixed_vars
    ELSE LET arg == term_args[k]
             key == IF arg.kind = "Not" THEN str(arg.args[1]) ELSE str(arg)
             val == IF arg.kind = "Not" THEN 0 ELSE 1
         IN  fixed_vars_from(term_args, k + 1,
                 [x \in DOMAIN fixed_vars \cup {key} |->
                     IF x = key THEN val ELSE fixed_vars[x]])

is_covered(i, variables, fixed_vars) ==
    LET bin_str == format(i, Len(variables))
    IN  \A var_index \in 1..Len(variables) :
            variables[var_index] \in DOMAIN fixed_vars
                => int(bin_str[var_index]) = fixed_vars[variables[var_index]]

get_minterms_for_term(term, variables) ==
    LET term_args  == IF term.kind \in {"And", "Or"} THEN term.args ELSE <<term>>
        fixed_vars == fixed_vars_from(term_args, 1, [x \in {} |-> 0])
        range      == [k \in 1..Pow2(Len(variables)) |-> k - 1]
    IN  SelectSeq(range, LAMBDA i : is_covered(i, variables, fixed_vars))

get_implicant_groups(minimized_expr, variables) ==
    IF InTrueFalse(minimized_expr) THEN <<>>
    ELSE LET terms == IF minimized_expr.kind = "Or" THEN minimized_expr.args
                      ELSE <<minimized_expr>>
         IN  [k \in 1..Len(terms) |-> get_minterms_for_term(terms[k], variables)]

(***************************************************************************)
(* format_sympy_expr                                                       *)
(***************************************************************************)
RECURSIVE sorted_by_len_reverse(_)
\* sorted(var_names, key=len, reverse=True): stable, longest name first
sorted_by_len_reverse(names) ==
    IF Len(names) = 0 THEN <<>>
    ELSE LET longest == CHOOSE k \in 1..Len(names) :
                 /\ \A j \in 1..Len(names) : Len(names[j]) <= Len(names[k])
                 /\ \A j \in 1..(k - 1) : Len(names[j]) < Len(names[k])
         IN  <<names[longest]>>
             \o sorted_by_len_reverse(SubSeq(names, 1, longest - 1)
                                      \o SubSeq(names, longest + 1, Len(names)))

RECURSIVE prime_vars(_, _, _)
\* the loop of lines 84-85: "~var" becomes "var'" for each name in turn
prime_vars(expr_str, names, k) ==
    IF k > Len(names) THEN expr_str
    ELSE prime_vars(Replace(expr_str, <<"~">> \o names[k], names[k] \o <<"'">>),
                    names, k + 1)

format_sympy_expr(e, names, form) ==
    IF IsTrue(e) THEN <<"1">>
    ELSE IF IsFalse(e) THEN <<"0">>
    ELSE LET expr_str == prime_vars(str(e), sorted_by_len_reverse(names), 1)
             no_and   == Replace(Replace(expr_str, <<" ", "|", " ">>, <<" ", "+", " ">>),
                                 <<" ", "&", " ">>, <<>>)
         IN  IF form = "SOP"
             THEN Replace(Replace(expr_str, <<" ", "&", " ">>, <<>>),
                          <<" ", "|", " ">>, <<" ", "+", " ">>)
             \* re.sub(r'\) & \(', ') (', ...) on the string whose " & " are gone
             ELSE Replace(no_and, <<")", " ", "&", " ", "(">>, <<")", " ", "(">>)

(***************************************************************************)
(* generate_kmap                                                           *)
(***************************************************************************)
\* the value None
None == [none |-> TRUE]

\* gray_map without the reflection of 2 and 3
gray_map_binary(v) == v

\* gray_map.get(v, v)
gray_map(v) == CASE v = 0 -> 0 [] v = 1 -> 1 [] v = 2 -> 3 [] v = 3 -> 2 [] OTHER -> v

rows_of(num_vars) == IF num_vars = 4 THEN 4 ELSE 2
cols_of(num_vars) == IF num_vars = 4 THEN 4 ELSE IF num_vars = 3 THEN 4 ELSE 2

row_vars_of(variables) == SubSeq(variables, 1, Len(variables) \div 2)
col_vars_of(variables) == SubSeq(variables, Len(variables) \div 2 + 1, Len(variables))

axis_labels(axis_vars) ==
    IF Len(axis_vars) = 1 THEN << <<"0">>, <<"1">> >>
    ELSE << <<"0", "0">>, <<"0", "1">>, <<"1", "1">>, <<"1", "0">> >>

\* all_terms_get with the on-set written last
all_terms_get_on_last(i, on, dc) ==
    IF i \in on THEN "1" ELSE IF i \in dc THEN "X" ELSE "0"

\* all_terms.get(i, "0") of line 100: the don't-care update is applied last
all_terms_get(i, on, dc) ==
    IF i \in dc THEN "X" ELSE IF i \in on THEN "1" ELSE "0"

\* lines 102-104: the cell <<r, c>> index i is written to
cell_of(i, variables) ==
    LET num_vars == Len(variables)
        bin_str  == format(i, num_vars)
        nrow     == Len(row_vars_of(variables))
        r_bin    == IF nrow > 0 THEN int2(SubSeq(bin_str, 1, nrow)) ELSE 0
        c_bin    == IF Len(col_vars_of(variables)) > 0
                    THEN int2(SubSeq(bin_str, nrow + 1, num_vars)) ELSE 0
    IN  <<gray_map(r_bin), gray_map(c_bin)>>

RECURSIVE fill_kmap(_, _, _, _, _)
\* the loop of lines 101-105 from index i on
fill_kmap(kmap, i, variables, on, dc) ==
    IF i >= Pow2(Len(variables)) THEN kmap
    ELSE LET cell == cell_of(i, variables)
             val  == all_terms_get(i, on, dc)
         IN  fill_kmap([kmap EXCEPT ![cell[1]][cell[2]] = val],
                       i + 1, variables, on, dc)

generate_kmap(variables, on, dc, output_name) ==
    LET num_vars == Len(variables)
    IN  IF num_vars \notin {2, 3, 4} THEN None
        ELSE [none        |-> FALSE,
              map         |-> fill_kmap([r \in 0..(rows_of(num_vars) - 1) |->
                                            [c \in 0..(cols_of(num_vars) - 1) |-> "0"]],
                                        0, variables, on, dc),
              row_labels  |-> axis_labels(row_vars_of(variables)),
              col_labels  |-> axis_labels(col_vars_of(variables)),
              row_vars    |-> Join(row_vars_of(variables), <<",">>),
              col_vars    |-> Join(col_vars_of(variables), <<",">>),
              output_name |-> output_name]

(***************************************************************************)
(* The minimizer (sympy.logic.boolalg), an external collaborator.  A       *)
(* product term is a cube, the number whose k-th base-3 digit says how the *)
(* k-th variable occurs: 0 complemented, 1 plain, 2 absent.  The cover a   *)
(* call returns is an input of the model: any set of at most MaxTerms      *)
(* prime implicants of ones + dontcares that covers the ones.              *)
(***************************************************************************)
Pow3(k) == 3 ^ k

Digit(cube, k, num_vars) == (cube \div Pow3(num_vars - k)) % 3

Indices(num_vars) == 0..(Pow2(num_vars) - 1)

Cubes(num_vars) == 0..(Pow3(num_vars) - 1)

CubeSet(cube, num_vars) ==
    {i \in Indices(num_vars) :
        \A k \in 1..num_vars :
            Digit(cube, k, num_vars) # 2
                => (i \div Pow2(num_vars - k)) % 2 = Digit(cube, k, num_vars)}

\* the index set of every cube, and the cubes through every index
CubeSets == [n \in 2..4 |-> [c \in Cubes(n) |-> CubeSet(c, n)]]

\* the cube with variable k of the cube freed
Freed(cube, k, num_vars) ==
    cube + (2 - Digit(cube, k, num_vars)) * Pow3(num_vars - k)

\* the cubes through every index
CubesWith == [n \in 2..4 |-> [i \in Indices(n) |-> {c \in Cubes(n) : i \in CubeSets[n][c]}]]

\* the prime implicants of care: the cubes inside care (those through no
\* index outside it) that no larger cube inside care contains
PrimeImplicants(care, n) ==
    LET implicants == Cubes(n) \ UNION {CubesWith[n][o] : o \in Indices(n) \ care}
    IN  {c \in implicants :
            \A k \in 1..n : Digit(c, k, n) # 2 => Freed(c, k, n) \notin implicants}

\* the covers a reduction may return: at most MaxTerms prime implicants of
\* ones + dontcares that together contain every one
Covers(ones, dcs, n) ==
    IF ones = {} THEN {{}}
    ELSE {T \in SubsetsUpTo(PrimeImplicants(ones \cup dcs, n), MaxTerms) :
            ones \subseteq UNION {CubeSets[n][c] : c \in T}}

RECURSIVE Literals(_, _, _, _)
\* the literals of a cube in variable order; in a sum factor (inverted)
\* the polarity of every literal is flipped
Literals(cube, variables, k, inverted) ==
    IF k > Len(variables) THEN <<>>
    ELSE LET d == Digit(cube, k, Len(variables))
         IN  (IF d = 2 THEN <<>>
              ELSE IF (d = 1) # inverted THEN <<Symbol(variables[k])>>
              ELSE <<Not(Symbol(variables[k]))>>)
             \o Literals(cube, variables, k + 1, inverted)

\* _convert_to_varsSOP: And(*literals); And() is true, And(x) is x
ProductTerm(cube, variables) ==
    LET lits == Literals(cube, variables, 1, FALSE)
    IN  IF Len(lits) = 0 THEN BooleanTrue
        ELSE IF Len(lits) = 1 THEN lits[1] ELSE And(lits)

\* _convert_to_varsPOS: Or(*inverted literals); Or() is false, Or(x) is x
SumFactor(cube, variables) ==
    LET lits == Literals(cube, variables, 1, TRUE)
    IN  IF Len(lits) = 0 THEN BooleanFalse
        ELSE IF Len(lits) = 1 THEN lits[1] ELSE Or(lits)

\* x and ~x are both among the arguments
Complementary(args) ==
    \E j, k \in 1..Len(args) : args[j] = Not(args[k])

\* Or(*terms) of sympy, the arguments in their canonical order (here: by
\* cube number): Or() is false, a true argument or x | ~x gives true,
\* Or(x) is x
SumOfProducts(T, variables) ==
    LET order == sorted(T)
        args  == [k \in 1..Len(order) |-> ProductTerm(order[k], variables)]
    IN  IF Len(args) = 0 THEN BooleanFalse
        ELSE IF (\E k \in 1..Len(args) : args[k] = BooleanTrue) \/ Complementary(args)
             THEN BooleanTrue
        ELSE IF Len(args) = 1 THEN args[1] ELSE Or(args)

\* And(*factors) of sympy: And() is true, a false argument or x & ~x
\* gives false, And(x) is x
ProductOfSums(T, variables) ==
    LET order == sorted(T)
        args  == [k \in 1..Len(order) |-> SumFactor(order[k], variables)]
    IN  IF Len(args) = 0 THEN BooleanTrue
        ELSE IF (\E k \in 1..Len(args) : args[k] = BooleanFalse) \/ Complementary(args)
             THEN BooleanFalse
        ELSE IF Len(args) = 1 THEN args[1] ELSE And(args)

\* SOPform(variables, minterms, dontcares) when the reduction picks cover T:
\* false without minterms, ValueError when a minterm is also a don't-care
SOPform(variables, ones, dcs, T) ==
    IF ones = {} THEN [raised |-> FALSE, value |-> BooleanFalse]
    ELSE IF ones \cap dcs # {} THEN [raised |-> TRUE, value |-> BooleanFalse]
    ELSE [raised |-> FALSE, value |-> SumOfProducts(T, variables)]

\* POSform(variables, minterms, dontcares) when the reduction of the
\* maxterms picks cover T
POSform(variables, ones, dcs, T) ==
    IF ones = {} THEN [raised |-> FALSE, value |-> BooleanFalse]
    ELSE IF ones \cap dcs # {} THEN [raised |-> TRUE, value |-> BooleanFalse]
    ELSE [raised |-> FALSE, value |-> ProductOfSums(T, variables)]

(***************************************************************************)
(* solve_kmap: the handler of POST /solve                                  *)
(***************************************************************************)
NoError == [text |-> "", count |-> 0, exc |-> ""]

\* jsonify({'solution': ..., 'kmap': ...})
Success(solution, kmap_data) ==
    [status |-> 200, error |-> NoError, solution |-> solution, kmap |-> kmap_data]

\* line 128: jsonify({'error': f"{len(var_names)} variables not supported (2-4 only)."}), 400
UnsupportedCount(count) ==
    [status |-> 400,
     error |-> [text |-> "variables not supported (2-4 only).", count |-> count, exc |-> ""],
     solution |-> <<>>, kmap |-> None]

\* line 171: the except clause
ServerError(exc) ==
    [status |-> 500,
     error |-> [text |-> "An unexpected server error occurred: ", count |-> 0, exc |-> exc],
     solution |-> <<>>, kmap |-> None]

\* kmap_data.update({'groups': ..., 'explanations': ..., 'form_type': ...})
kmap_update(kmap_data, groups, explanations, form) ==
    [none         |-> FALSE,
     map          |-> kmap_data.map,
     row_labels   |-> kmap_data.row_labels,
     col_labels   |-> kmap_data.col_labels,
     row_vars     |-> kmap_data.row_vars,
     col_vars     |-> kmap_data.col_vars,
     output_name  |-> kmap_data.output_name,
     groups       |-> groups,
     explanations |-> explanations,
     form_type    |-> form]

\* data.get('variables', 'a,b,c,d') ... or ['a', 'b', 'c', 'd']
default_names == << <<"a">>, <<"b">>, <<"c">>, <<"d">> >>

\* short_circuit on a missing variable list only
short_circuit_no_names(names, on, dc) == Len(names) = 0

\* line 123: not var_names or (not minterms and not dontcares)
short_circuit(names, on, dc) == Len(names) = 0 \/ (on = {} /\ dc = {})

\* relevant_terms_of without the filter
relevant_terms_unfiltered(group, terms_to_group) ==
    sorted({group[k] : k \in 1..Len(group)})

\* line 152: sorted([m for m in group if m in terms_to_group])
relevant_terms_of(group, terms_to_group) ==
    sorted({group[k] : k \in 1..Len(group)} \cap terms_to_group)

RECURSIVE explanations_from(_, _, _, _, _, _)
\* the loop of lines 150-159 from group k on
explanations_from(groups, k, terms_to_group, term_name, variables, form) ==
    IF k > Len(groups) THEN <<>>
    ELSE LET relevant_terms == relevant_terms_of(groups[k], terms_to_group)
         IN  (IF Len(relevant_terms) = 0 THEN <<>>
              ELSE <<[term_name |-> term_name,
                      positions |-> relevant_terms,
                      term      |-> group_to_term(groups[k], variables, form)]>>)
             \o explanations_from(groups, k + 1, terms_to_group, term_name,
                                  variables, form)

\* list(set(range(2**len(variables))) - set(minterms) - set(dontcares))
maxterms_of(variables, on, dc) == (Indices(Len(variables)) \ on) \ dc

\* lines 161-169, once the expressions are known
solve_response(names, on, dc, form, minimized_expr, group_expr, terms_to_group, term_name) ==
    LET groups       == get_implicant_groups(group_expr, names)
        explanations == explanations_from(groups, 1, terms_to_group, term_name, names, form)
        solution_str == format_sympy_expr(minimized_expr, names, form)
        kmap_data    == generate_kmap(names, on, dc, <<"f">>)
    IN  Success(solution_str, kmap_update(kmap_data, groups, explanations, form))

\* the handler on a request, T being the cover the minimizer picks; the
\* result is the response and the number of minimizer calls made
solve_kmap(names, on, dc, form, bad_token, T) ==
    IF bad_token
    THEN [response |-> ServerError("ValueError"), calls |-> 0]
    ELSE IF short_circuit(names, on, dc)
    THEN LET kmap_data == generate_kmap(IF Len(names) = 0 THEN default_names ELSE names,
                                        {}, {}, <<"f">>)
         IN  IF kmap_data.none
             THEN [response |-> ServerError("AttributeError"), calls |-> 0]
             ELSE [response |-> Success(<<"0">>, kmap_update(kmap_data, <<>>, <<>>, form)),
                   calls |-> 0]
    ELSE IF Len(names) \notin {2, 3, 4}
    THEN [response |-> UnsupportedCount(Len(names)), calls |-> 0]
    ELSE IF form = "SOP"
    THEN LET sop == SOPform(names, on, dc, T)
         IN  IF sop.raised
             THEN [response |-> ServerError("ValueError"), calls |-> 1]
             ELSE [response |-> solve_response(names, on, dc, form, sop.value,
                                               sop.value, on, "1s"),
                   calls |-> 1]
    ELSE LET pos      == POSform(names, on, dc, T)
             maxterms == maxterms_of(names, on, dc)
             zeros    == SOPform(names, maxterms, dc, T)
         IN  IF pos.raised
             THEN [response |-> ServerError("ValueError"), calls |-> 1]
             ELSE [response |-> solve_response(names, on, dc, form, pos.value,
                                               zeros.value, maxterms, "0s"),
                   calls |-> 2]

\* the covers the minimizer may pick on this request
MinimizerChoices(names, on, dc, form, bad_token) ==
    IF bad_token \/ short_circuit(names, on, dc) \/ Len(names) \notin {2, 3, 4}
       \/ on \cap dc # {}
    THEN {{}}
    ELSE IF form = "SOP" THEN Covers(on, dc, Len(names))
    ELSE Covers(maxterms_of(names, on, dc), dc, Len(names))

(***************************************************************************)
(* Inputs.                                                                 *)
(***************************************************************************)
AllNames == << <<"a">>, <<"b">>, <<"c">>, <<"d">>, <<"e">>, <<"f">>, <<"g">>, <<"h">> >>

Names(n) == SubSeq(AllNames, 1, n)

Forms == {"SOP", "POS"}

\* the integer tokens of a request: the indices of the map, or two-bit
\* values when the variable count is unsupported
Tokens(n) == IF n \in {2, 3, 4} THEN Indices(n) ELSE 0..3

\* the pairs <<on-set, don't-care set>> of a request over the tokens U: on
\* a background of all cells off, or of all cells on, at most MaxMarked
\* cells are marked
RequestSets(U) ==
    LET small  == SubsetsUpTo(U, MaxMarked)
        marked == {p \in small \X small : Cardinality(p[1] \cup p[2]) <= MaxMarked}
    IN  marked \cup {<<U \ p[1], p[2]>> : p \in marked}

\* a term over the variables, as the minimizer builds it
TermExprs(n) ==
    {ProductTerm(c, Names(n)) : c \in Cubes(n)}
        \cup {SumFactor(c, Names(n)) : c \in Cubes(n) \ {Pow3(n) - 1}}

\* an expression the minimizer may return, or a Python bool
Exprs(n) ==
    {BooleanTrue, BooleanFalse, PyTrue, PyFalse}
        \cup {SumOfProducts(T, Names(n)) : T \in SubsetsUpTo(Cubes(n), MaxTerms) \ {{}}}

PosExprs(n) ==
    {ProductOfSums(T, Names(n)) : T \in SubsetsUpTo(Cubes(n), MaxTerms) \ {{}}}

\* the list of a set of indices
ListOf(S) == sorted(S)

NoRet == None

(***************************************************************************)
(* The /solve handler.                                                     *)
(***************************************************************************)
Init ==
    /\ op = "solve_kmap"
    /\ pc = "call"
    /\ \E n \in 0..MaxVarCount :
          /\ var_names = Names(n)
          /\ \E p \in RequestSets(Tokens(n)) :
                /\ minterms = p[1]
                /\ dontcares = p[2]
    /\ form_type \in Forms
    /\ malformed \in BOOLEAN
    /\ malformed => (minterms = {} /\ dontcares = {})
    /\ expr_obj = BooleanFalse
    /\ group_minterms = <<>>
    /\ ret = NoRet
    /\ minimizer_calls = 0

Solve ==
    /\ op = "solve_kmap"
    /\ pc = "call"
    /\ \E T \in MinimizerChoices(var_names, minterms, dontcares, form_type, malformed) :
          LET r == solve_kmap(var_names, minterms, dontcares, form_type, malformed, T)
          IN  /\ ret' = r.response
              /\ minimizer_calls' = r.calls
    /\ pc' = "ret"
    /\ UNCHANGED <<op, var_names, form_type, minterms, dontcares, malformed,
                   expr_obj, group_minterms>>

Next == Solve

Spec == Init /\ [][Next]_vars

(***************************************************************************)
(* The functions of the pipeline, each applied to inputs of its own.       *)
(***************************************************************************)
\* the state of a call of function f on variable list names
Call(f, names) ==
    /\ op = f
    /\ pc = "call"
    /\ var_names = names
    /\ ret = NoRet
    /\ minimizer_calls = 0
    /\ malformed = FALSE

Return(value) ==
    /\ pc = "call"
    /\ ret' = value
    /\ pc' = "ret"
    /\ UNCHANGED <<op, var_names, form_type, minterms, dontcares, malformed,
                   expr_obj, group_minterms, minimizer_calls>>

\* get_minterms_for_term on every term over 2 to 4 variables
InitGetMintermsForTerm ==
    /\ \E n \in 2..4 :
          /\ Call("get_minterms_for_term", Names(n))
          /\ expr_obj \in TermExprs(n)
    /\ form_type = "SOP"
    /\ minterms = {}
    /\ dontcares = {}
    /\ group_minterms = <<>>

GetMintermsForTerm ==
    /\ op = "get_minterms_for_term"
    /\ Return(get_minterms_for_term(expr_obj, var_names))

\* get_implicant_groups on the constants and on every sum of at most
\* MaxTerms product terms
InitGetImplicantGroups ==
    /\ \E n \in 2..4 :
          /\ Call("get_implicant_groups", Names(n))
          /\ expr_obj \in Exprs(n)
    /\ form_type = "SOP"
    /\ minterms = {}
    /\ dontcares = {}
    /\ group_minterms = <<>>

GetImplicantGroups ==
    /\ op = "get_implicant_groups"
    /\ Return(get_implicant_groups(expr_obj, var_names))

\* group_to_term on the group of every term (expr_obj is the term) and on
\* every list of at most MaxGroupSize indices (expr_obj is false: no term)
InitGroupToTerm ==
    /\ \E n \in 2..4 :
          /\ Call("group_to_term", Names(n))
          /\ \/ /\ expr_obj \in TermExprs(n)
                /\ group_minterms = get_minterms_for_term(expr_obj, Names(n))
             \/ /\ expr_obj = BooleanFalse
                /\ group_minterms \in {ListOf(S) : S \in SubsetsUpTo(Indices(n), MaxGroupSize)}
    /\ form_type \in Forms
    /\ minterms = {}
    /\ dontcares = {}

GroupToTerm ==
    /\ op = "group_to_term"
    /\ Return(group_to_term(group_minterms, var_names, form_type))

InitTerms == InitGetMintermsForTerm \/ InitGetImplicantGroups \/ InitGroupToTerm

NextTerms == GetMintermsForTerm \/ GetImplicantGroups \/ GroupToTerm

SpecTerms == InitTerms /\ [][NextTerms]_vars

\* generate_kmap on every variable count and marked cells
InitKmap ==
    /\ \E n \in 0..MaxVarCount :
          /\ Call("generate_kmap", Names(n))
          /\ \E p \in RequestSets(Tokens(n)) :
                /\ minterms = p[1]
                /\ dontcares = p[2]
    /\ form_type = "SOP"
    /\ expr_obj = BooleanFalse
    /\ group_minterms = <<>>

GenerateKmap ==
    /\ op = "generate_kmap"
    /\ Return(generate_kmap(var_names, minterms, dontcares, <<"f">>))

SpecKmap == InitKmap /\ [][GenerateKmap]_vars

\* format_sympy_expr on the constants, sums of products and products of sums
InitFormat ==
    /\ \E n \in 2..4 :
          /\ Call("format_sympy_expr", Names(n))
          /\ expr_obj \in Exprs(n) \cup PosExprs(n)
    /\ form_type \in Forms
    /\ minterms = {}
    /\ dontcares = {}
    /\ group_minterms = <<>>

FormatSympyExpr ==
    /\ op = "format_sympy_expr"
    /\ Return(format_sympy_expr(expr_obj, var_names, form_type))

SpecFormat == InitFormat /\ [][FormatSympyExpr]_vars

(***************************************************************************)
(* Properties.                                                             *)
(***************************************************************************)
Returned(f) == op = f /\ pc = "ret"

\* bit k (1 = most significant of n) of index i
BitOf(i, k, n) == (i \div Pow2(n - k)) % 2

\* the position of a name in the variable list
PosOf(name, names) == CHOOSE k \in 1..Len(names) : names[k] = name

RECURSIVE ReadLiterals(_, _, _, _)
\* the literals of a displayed term, read from character i on: in SOP a
\* primed name stands for bit 0 and a plain name for bit 1, in POS a plain
\* name stands for bit 0 and a primed name for bit 1
ReadLiterals(s, names, form, i) ==
    IF i > Len(s) THEN <<>>
    ELSE IF \E k \in 1..Len(names) : names[k] = <<s[i]>>
         THEN LET primed == i < Len(s) /\ s[i + 1] = "'"
                  bit    == IF (form = "SOP") = primed THEN 0 ELSE 1
              IN  <<IF bit = 1 THEN Symbol(<<s[i]>>) ELSE Not(Symbol(<<s[i]>>))>>
                  \o ReadLiterals(s, names, form, i + 1)
         ELSE ReadLiterals(s, names, form, i + 1)

ReadTerm(s, names, form) ==
    LET lits == ReadLiterals(s, names, form, 1)
    IN  IF Len(lits) = 0 THEN BooleanTrue
        ELSE IF Len(lits) = 1 THEN lits[1] ELSE And(lits)

\* C1: the term group_to_term displays for the group of a term, read back
\* with the polarity convention of the form type and expanded by
\* get_minterms_for_term, is the group again.
RoundTrip ==
    (Returned("group_to_term") /\ expr_obj # BooleanFalse)
        => get_minterms_for_term(ReadTerm(ret, var_names, form_type), var_names)
               = group_minterms

RoundTripWitness ==
    /\ Returned("group_to_term")
    /\ expr_obj # BooleanFalse
    /\ form_type = "POS"
    /\ Len(var_names) = 4
    /\ group_minterms = <<4, 5, 6, 7>>
    /\ ret = <<"(", "a", " ", "+", " ", "b", "'", ")">>

\* the index whose n-bit encoding differs from that of i in bit k alone
FlipBit(i, k, n) ==
    IF BitOf(i, k, n) = 0 THEN i + Pow2(n - k) ELSE i - Pow2(n - k)

\* two cells of a grid of rows x cols share a row or a column and are one
\* step apart in the other coordinate, the first and last counted as neighbours
Adjacent(p, q, rows, cols) ==
    LET dr == IF p[1] >= q[1] THEN p[1] - q[1] ELSE q[1] - p[1]
        dc == IF p[2] >= q[2] THEN p[2] - q[2] ELSE q[2] - p[2]
    IN  \/ dr = 0 /\ dc \in {1, cols - 1}
        \/ dc = 0 /\ dr \in {1, rows - 1}

\* the cells of a grid that hold value
CellsHolding(grid, value) ==
    {p \in (DOMAIN grid) \X (DOMAIN grid[0]) : grid[p[1]][p[2]] = value}

\* C2: in the grid generate_kmap returns for 2 to 4 variables, the cells of
\* two indices that differ in one bit are adjacent, the grid wrapping around.
GridAdjacency ==
    (Returned("generate_kmap") /\ Len(var_names) \in {2, 3, 4})
        => LET n    == Len(var_names)
               rows == Cardinality(DOMAIN ret.map)
               cols == Cardinality(DOMAIN ret.map[0])
               cell == [i \in Indices(n) |-> cell_of(i, var_names)]
           IN  \* every index has a cell of its own in the returned grid
               /\ {cell[i] : i \in Indices(n)} = (DOMAIN ret.map) \X (DOMAIN ret.map[0])
               /\ rows * cols = Pow2(n)
               /\ \A i \in Indices(n), k \in 1..n :
                     Adjacent(cell[i], cell[FlipBit(i, k, n)], rows, cols)
               \* the marked cells of the returned grid are where cell_of says
               /\ \A i \in minterms \cup dontcares : ret.map[cell[i][1]][cell[i][2]] # "0"

\* indices 0 and 8 of a 4-variable map land in the first and the last row
GridAdjacencyWitness ==
    /\ Returned("generate_kmap")
    /\ Len(var_names) = 4
    /\ minterms = {0, 8}
    /\ dontcares = {}
    /\ CellsHolding(ret.map, "1") = {<<0, 0>>, <<3, 0>>}

\* every numeric token of the request parses
WellFormed == ~malformed

\* C3: a /solve request whose variable list has a length outside {2,3,4}
\* is answered 400 with the count and the range "2-4", nothing computed,
\* whatever the on-set and the don't-care set are.  Stated for the lists
\* that name a variable: line 124 replaces an empty list by a, b, c, d.
UnsupportedCountRejected ==
    (Returned("solve_kmap") /\ WellFormed /\ Len(var_names) \notin {0, 2, 3, 4})
        => /\ ret.status = 400
           /\ ret.error.count = Len(var_names)
           /\ ret.error.text = "variables not supported (2-4 only)."
           /\ ret.kmap.none
           /\ minimizer_calls = 0

\* C4: an SOP request whose on-set is the whole map is answered with
\* solution "1" and no groups.
ConstantTrue ==
    (/\ Returned("solve_kmap")
     /\ WellFormed
     /\ Len(var_names) \in {2, 3, 4}
     /\ form_type = "SOP"
     /\ minterms = Indices(Len(var_names))
     /\ dontcares = {})
        => /\ ret.status = 200
           /\ ret.solution = <<"1">>
           /\ ret.kmap.groups = <<>>

\* C5: a /solve request over 2 to 4 variables with an empty on-set and an
\* empty don't-care set succeeds with solution "0", no groups, no
\* explanations and an all-"0" grid of the size for n, the minimizer unused.
DegenerateInput ==
    (/\ Returned("solve_kmap")
     /\ WellFormed
     /\ Len(var_names) \in {2, 3, 4}
     /\ minterms = {}
     /\ dontcares = {})
        => /\ ret.status = 200
           /\ ret.solution = <<"0">>
           /\ ret.kmap.groups = <<>>
           /\ ret.kmap.explanations = <<>>
           /\ DOMAIN ret.kmap.map = 0..(rows_of(Len(var_names)) - 1)
           /\ \A r \in DOMAIN ret.kmap.map :
                 /\ DOMAIN ret.kmap.map[r] = 0..(cols_of(Len(var_names)) - 1)
                 /\ \A c \in DOMAIN ret.kmap.map[r] : ret.kmap.map[r][c] = "0"
           /\ Cardinality(DOMAIN ret.kmap.map) * Cardinality(DOMAIN ret.kmap.map[0])
                 = Pow2(Len(var_names))
           /\ minimizer_calls = 0

DegenerateInputWitness ==
    /\ Returned("solve_kmap")
    /\ WellFormed
    /\ Len(var_names) = 3
    /\ form_type = "POS"
    /\ minterms = {}
    /\ dontcares = {}
    /\ ret.status = 200

\* the value of the cell of index i in a returned grid
CellValue(grid, i) == grid[cell_of(i, var_names)[1]][cell_of(i, var_names)[2]]

\* C6 as stated: the cell of i is "1" when i is in the on-set, also when
\* it is a don't-care too, "X" when it is a don't-care only, "0" otherwise.
CellValuesOnSetWins ==
    (Returned("generate_kmap") /\ Len(var_names) \in {2, 3, 4})
        => \A i \in Indices(Len(var_names)) :
              CellValue(ret.map, i) = IF i \in minterms THEN "1"
                                      ELSE IF i \in dontcares THEN "X" ELSE "0"

\* C6 as amended: the cell of i is "X" when i is in the don't-care set,
\* also when it is in the on-set too, "1" when it is in the on-set only,
\* "0" otherwise.
CellValuesDontCareWins ==
    (Returned("generate_kmap") /\ Len(var_names) \in {2, 3, 4})
        => \A i \in Indices(Len(var_names)) :
              CellValue(ret.map, i) = IF i \in dontcares THEN "X"
                                      ELSE IF i \in minterms THEN "1" ELSE "0"

CellValuesWitness ==
    /\ Returned("generate_kmap")
    /\ Len(var_names) = 3
    /\ minterms = {1, 6}
    /\ dontcares = {6}
    /\ CellValue(ret.map, 1) = "1"
    /\ CellValue(ret.map, 6) = "X"
    /\ CellValue(ret.map, 0) = "0"

RECURSIVE DisplayFactors(_, _)
\* the factors of a product of sums from k on, each sum in parentheses
\* with " + " between its literals
DisplayFactors(factors, k) ==
    IF k > Len(factors) THEN <<>>
    ELSE LET lits == [j \in 1..Len(factors[k].args) |->
                         IF factors[k].args[j].kind = "Not"
                         THEN factors[k].args[j].args[1].name \o <<"'">>
                         ELSE factors[k].args[j].name]
         IN  << <<"(">> \o Join(lits, <<" ", "+", " ">>) \o <<")">> >>
             \o DisplayFactors(factors, k + 1)

\* an And of two or more sums
ProductOfSumFactors(e) ==
    /\ e.kind = "And"
    /\ Len(e.args) >= 2
    /\ \A k \in 1..Len(e.args) : e.args[k].kind = "Or"

\* C7: format_sympy_expr in POS form displays a product of sums as its
\* parenthesized sums separated by exactly one space.
PosDisplay ==
    (Returned("format_sympy_expr") /\ form_type = "POS" /\ ProductOfSumFactors(expr_obj))
        => ret = Join(DisplayFactors(expr_obj.args, 1), <<" ">>)

RECURSIVE ExpectedLiterals(_, _, _, _)
\* one literal for each position from k on at which all members of G have
\* the same bit
ExpectedLiterals(G, names, form, k) ==
    IF k > Len(names) THEN <<>>
    ELSE LET n     == Len(names)
             zero  == \A m \in G : BitOf(m, k, n) = 0
             one   == \A m \in G : BitOf(m, k, n) = 1
             plain == names[k]
             prime == names[k] \o <<"'">>
         IN  (IF zero THEN <<IF form = "SOP" THEN prime ELSE plain>>
              ELSE IF one THEN <<IF form = "SOP" THEN plain ELSE prime>>
              ELSE <<>>)
             \o ExpectedLiterals(G, names, form, k + 1)

ExpectedTerm(G, names, form) ==
    LET lits == ExpectedLiterals(G, names, form, 1)
    IN  IF Len(lits) = 0 THEN <<"1">>
        ELSE IF form = "SOP" THEN Join(lits, <<>>)
        ELSE <<"(">> \o Join(lits, <<" ", "+", " ">>) \o <<")">>

SetOf(list) == {list[k] : k \in 1..Len(list)}

\* C8: the term of a non-empty group has one literal per constant bit
\* position, in variable order, primed for a constant 0 in SOP and for a
\* constant 1 in POS; SOP concatenates, POS joins by " + " in parentheses;
\* the term is "1" exactly when no position is constant.
PolarityRule ==
    (Returned("group_to_term") /\ Len(group_minterms) > 0)
        => LET G == SetOf(group_minterms)
               n == Len(var_names)
           IN  /\ ret = ExpectedTerm(G, var_names, form_type)
               /\ (ret = <<"1">>)
                     <=> (\A k \in 1..n : \E i, j \in G : BitOf(i, k, n) # BitOf(j, k, n))
               /\ (var_names = Names(2) /\ group_minterms = <<0>>)
                     => ret = IF form_type = "SOP" THEN <<"a", "'", "b", "'">>
                              ELSE <<"(", "a", " ", "+", " ", "b", ")">>

PolarityRuleWitness ==
    /\ Returned("group_to_term")
    /\ var_names = Names(2)
    /\ group_minterms = <<0>>
    /\ form_type = "POS"
    /\ ret = <<"(", "a", " ", "+", " ", "b", ")">>

\* the set explanations are about: the on-set in SOP, the maxterms in POS
RelevantSet ==
    IF form_type = "SOP" THEN minterms
    ELSE (Indices(Len(var_names)) \ minterms) \ dontcares

RECURSIVE RelevantGroups(_, _)
\* the positions from k on of the groups that meet the relevant set
RelevantGroups(groups, k) ==
    IF k > Len(groups) THEN <<>>
    ELSE (IF SetOf(groups[k]) \cap RelevantSet # {} THEN <<k>> ELSE <<>>)
         \o RelevantGroups(groups, k + 1)

\* C9: a successful /solve response has one explanation per group meeting
\* the relevant set, in the order of the groups; it names the sorted
\* intersection and the term of the whole group; the other groups have
\* none and stay in the groups list.
ExplanationsFollowGroups ==
    (Returned("solve_kmap") /\ ret.status = 200)
        => LET groups       == ret.kmap.groups
               explanations == ret.kmap.explanations
               kept         == RelevantGroups(groups, 1)
           IN  /\ Len(explanations) = Len(kept)
               /\ Len(explanations) <= Len(groups)
               /\ \A j \in 1..Len(kept) :
                     /\ explanations[j].positions
                            = sorted(SetOf(groups[kept[j]]) \cap RelevantSet)
                     /\ explanations[j].term
                            = ExpectedTerm(SetOf(groups[kept[j]]), var_names, form_type)
                     /\ explanations[j].term_name
                            = IF form_type = "SOP" THEN "1s" ELSE "0s"

\* a response with a don't-care-only group ahead of an explained one
ExplanationsWitness ==
    /\ Returned("solve_kmap")
    /\ ret.status = 200
    /\ Len(var_names) = 4
    /\ Len(ret.kmap.groups) = 2
    /\ Len(ret.kmap.explanations) = 1
    /\ SetOf(ret.kmap.groups[1]) \cap RelevantSet = {}
    /\ ret.kmap.explanations[1].positions = ret.kmap.groups[2]

\* the literals of a term as pairs <<name, bit>>
TermLiterals(term) ==
    LET term_args == IF term.kind \in {"And", "Or"} THEN term.args ELSE <<term>>
    IN  {<<term_args[k].name, 1>> :
            k \in {j \in 1..Len(term_args) : term_args[j].kind = "Symbol"}}
        \cup {<<term_args[k].args[1].name, 0>> :
                k \in {j \in 1..Len(term_args) : term_args[j].kind = "Not"}}

\* the indices whose bit at the position of every literal is its polarity
SubCube(term, names) ==
    {i \in Indices(Len(names)) :
        \A l \in TermLiterals(term) : BitOf(i, PosOf(l[1], names), Len(names)) = l[2]}

Ascending(list) == \A k \in 1..(Len(list) - 1) : list[k] < list[k + 1]

\* C10: get_minterms_for_term lists, ascending and without repeats, the
\* 2^(n-k) indices that agree with the k literals of the term;
\* get_implicant_groups gives one such group per top-level term in order,
\* one group for a lone term and none for a Boolean constant.
GroupsAreSubCubes ==
    /\ Returned("get_minterms_for_term")
          => /\ SetOf(ret) = SubCube(expr_obj, var_names)
             /\ Ascending(ret)
             /\ Len(ret) = Pow2(Len(var_names) - Cardinality(TermLiterals(expr_obj)))
             /\ (TermLiterals(expr_obj) = {} => Len(ret) = Pow2(Len(var_names)))
    /\ Returned("get_implicant_groups")
          => IF expr_obj.kind \in {"bool", "BooleanTrue", "BooleanFalse"}
             THEN ret = <<>>
             ELSE LET terms == IF expr_obj.kind = "Or" THEN expr_obj.args
                               ELSE <<expr_obj>>
                  IN  /\ Len(ret) = Len(terms)
                      /\ \A k \in 1..Len(terms) :
                            /\ SetOf(ret[k]) = SubCube(terms[k], var_names)
                            /\ Ascending(ret[k])

GroupsAreSubCubesWitness ==
    /\ Returned("get_implicant_groups")
    /\ Len(var_names) = 4
    /\ expr_obj.kind = "Or"
    /\ Len(ret) = 2
    /\ ret[1] = <<5>>
    /\ ret[2] = <<8, 9, 10, 11, 12, 13, 14, 15>>

====
